---- MODULE Spec2Model ----
(***************************************************************************)
(* A model of the Redis leaderboard of src/leaderboard.go.                 *)
(*                                                                         *)
(* The sorted set (scores) and the hash (member info) live in Redis; a     *)
(* Leaderboard value holds only the page size.  Every Redis command is     *)
(* one atomic step; an exported method is the sequence of its commands,    *)
(* so callers on different connections interleave between commands.        *)
(*                                                                         *)
(* Member ids are strings in the code.  Here an id is a natural number     *)
(* and the order of the numbers stands for the byte order of the strings   *)
(* (Redis orders members of equal score by it): 1, 2, 3 stand for "111",   *)
(* "12345", "45678" of the README.  0 stands for the empty string.        *)
(***************************************************************************)
EXTENDS Integers, Sequences, FiniteSets, TLC

VARIABLES
    zset,        \* the sorted set l.leaderboardName: member -> score
    hash,        \* the hash l.userInfoHashName: member -> stored string
    PageSize,    \* Leaderboard.PageSize
    faulty,      \* whether Redis commands may fail (network, server)
    concurrent,  \* whether calls of different callers may overlap
    pc,          \* per caller: the command its call is about to issue
    op,          \* per caller: the method called and its arguments
    loc,         \* per caller: the local variables of the call
    ret,         \* per caller: what the last call returned
    pre,         \* per caller: the stores when the call began
    calls,       \* number of calls begun
    faults,      \* number of commands that failed
    zset0,       \* the sorted set found at construction
    firstArg,    \* per member: score argument of the first FirstOrInsertMember
    lastAdd,     \* per member: the caller whose ZADD was applied last
    incd,        \* the members a ZINCRBY was applied to
    incLog,      \* IncrementMemberScore calls that returned without error
    hcalls       \* number of commands issued on the hash

vars == <<zset, hash, PageSize, faulty, concurrent, pc, op, loc, ret, pre,
          calls, faults, zset0, firstArg, lastAdd, incd, incLog, hcalls>>

----------------------------------------------------------------------------
(* Bounds of the model *)

MaxCalls == 2
MaxFaults == 1
NumIds == 12

Callers == {1, 2}
Members == 1..NumIds
\* members the calls are about
UserIDs == {2, NumIds}
\* sizes of the sorted set found at construction: members 1..k
InitSizes == {0, 3, 10, 11}
\* scores of the members found at construction; the first three are the
\* README's 111 -> 12, 12345 -> 33, 45678 -> 44
InitScores == <<12, 33, 44, 33, 12, 44, 44, 12, 33, 12, 44, 33>>
Scores == {12, 44}
Deltas == {-5, 0, 21, 7481523}
Pages == {0, 1, 2, 3}
PageSizeArgs == {7, 10, 25, 50, 100}
\* the same for the runs with overlapping calls
ConcInitSizes == {0, 3}
ConcPageSizeArgs == {10}
\* the same for the runs that compare the ranks of all members
RankInitSizes == {3, 11}
RankPageSizeArgs == {10}
Payloads == {"a", "b"}

----------------------------------------------------------------------------
(* Constants of the program *)

UnrankedMember == -1
DefaultPageSize == 25
allowedPageSizes == {10, 25, 50, 100}

ErrNil == "nil"
RedisNil == "redis: nil"
ErrBackend == "backend error"
ErrIncrementByMustBePositiveInteger == "leaderboard: incrementBy must be positive integer"
ErrBase64 == "illegal base64 data"

ZeroUser == [id |-> 0, score |-> 0, rank |-> 0, info |-> ""]
User(id, score, rank, info) == [id |-> id, score |-> score, rank |-> rank, info |-> info]

\* NewLeaderboard: a page size outside the allowed set becomes the default
NewLeaderboard(pageSize) ==
    IF pageSize \in allowedPageSizes THEN pageSize ELSE DefaultPageSize

----------------------------------------------------------------------------
(* Redis commands.  f says that the command fails (no reply from Redis);  *)
(* a reply is [val, err].                                                  *)

\* float64(int) and int(float64): exact for |x| <= 2^53, which holds every
\* integer of the model
Float64(x) == x
ToInt(x) == x

\* m comes before n in descending order: higher score first, and among equal
\* scores the greater member first
Before(z, m, n) == z[m] > z[n] \/ (z[m] = z[n] /\ m > n)

ZRevRank(z, id, f) ==
    IF f THEN [val |-> 0, err |-> ErrBackend]
    ELSE IF id \notin DOMAIN z THEN [val |-> 0, err |-> RedisNil]
    ELSE [val |-> Cardinality({m \in DOMAIN z : Before(z, m, id)}), err |-> ErrNil]

ZScore(z, id, f) ==
    IF f THEN [val |-> 0, err |-> ErrBackend]
    ELSE IF id \notin DOMAIN z THEN [val |-> 0, err |-> RedisNil]
    ELSE [val |-> z[id], err |-> ErrNil]

ZCard(z, f) ==
    IF f THEN [val |-> 0, err |-> ErrBackend]
    ELSE [val |-> Cardinality(DOMAIN z), err |-> ErrNil]

\* ZCOUNT key -inf +inf
ZCount(z, f) ==
    IF f THEN [val |-> 0, err |-> ErrBackend]
    ELSE [val |-> Cardinality({m \in DOMAIN z : TRUE}), err |-> ErrNil]

\* the members in descending order
RevOrder(z) ==
    [i \in 1..Cardinality(DOMAIN z) |->
        CHOOSE m \in DOMAIN z : Cardinality({n \in DOMAIN z : Before(z, n, m)}) = i - 1]

\* ZREVRANGE key start stop WITHSCORES, 0 <= start: positions start..stop,
\* cut at the end of the set
ZRevRangeWithScores(z, start, stop, f) ==
    IF f THEN [val |-> <<>>, err |-> ErrBackend]
    ELSE LET n == Cardinality(DOMAIN z)
             last == IF stop < n - 1 THEN stop ELSE n - 1
             ord == RevOrder(z)
         IN  [val |-> [i \in 1..(IF last < start THEN 0 ELSE last - start + 1) |->
                          [Member |-> ord[start + i], Score |-> z[ord[start + i]]]],
              err |-> ErrNil]

\* ZADD key NX score member: an existing member keeps its score
ZAddNX(z, id, score) ==
    [m \in DOMAIN z \cup {id} |-> IF m \in DOMAIN z THEN z[m] ELSE score]

\* ZADD key score member: the set after the command
ZAdd(z, id, score) ==
    [m \in DOMAIN z \cup {id} |-> IF m = id THEN score ELSE z[m]]

\* the increment written as the score
ZIncrByAsZAdd(z, id, incr) ==
    [m \in DOMAIN z \cup {id} |-> IF m = id THEN incr ELSE z[m]]

\* ZINCRBY key increment member: the set after the command (an absent member
\* counts as 0)
ZIncrBy(z, id, incr) ==
    [m \in DOMAIN z \cup {id} |->
        IF m = id THEN (IF id \in DOMAIN z THEN z[id] ELSE 0) + incr ELSE z[m]]

HGet(h, id, f) ==
    IF f THEN [val |-> [quoted |-> FALSE, b64 |-> FALSE, raw |-> ""], err |-> ErrBackend]
    ELSE IF id \notin DOMAIN h
         THEN [val |-> [quoted |-> FALSE, b64 |-> FALSE, raw |-> ""], err |-> RedisNil]
    ELSE [val |-> h[id], err |-> ErrNil]

HSet(h, id, s) == [m \in DOMAIN h \cup {id} |-> IF m = id THEN s ELSE h[m]]

----------------------------------------------------------------------------
(* Encoding of member info.  A string is [quoted, b64, raw]: raw, base64    *)
(* encoded when b64, inside double quotes when quoted.                      *)

Base64Encode(bytes) == [quoted |-> FALSE, b64 |-> TRUE, raw |-> bytes]
Quote(s) == [s EXCEPT !.quoted = TRUE]
\* the bytes stored as they are
JsonMarshalRaw(bytes) == [quoted |-> FALSE, b64 |-> FALSE, raw |-> bytes]
\* json.Marshal of a byte slice: the base64 text as a JSON string
JsonMarshal(bytes) == Quote(Base64Encode(bytes))
\* strconv.Unquote: the error is dropped by the caller, which then holds ""
Unquote(s) ==
    IF s.quoted THEN [s EXCEPT !.quoted = FALSE]
    ELSE [quoted |-> FALSE, b64 |-> FALSE, raw |-> ""]
Base64Decode(s) ==
    IF s.b64 THEN [val |-> s.raw, err |-> ErrNil]
    ELSE IF s.raw = "" THEN [val |-> "", err |-> ErrNil]
    ELSE [val |-> "", err |-> ErrBase64]

----------------------------------------------------------------------------
(* The unexported helpers *)

\* the 0-based rank of ZREVRANK returned as it is
getMemberRankZeroBased(z, id, f) ==
    LET r == ZRevRank(z, id, f)
    IN  IF r.err # ErrNil THEN [rank |-> 0, err |-> r.err]
        ELSE [rank |-> ToInt(r.val), err |-> ErrNil]

getMemberRank(z, id, f) ==
    LET r == ZRevRank(z, id, f)
    IN  IF r.err # ErrNil THEN [rank |-> 0, err |-> r.err]
        ELSE [rank |-> ToInt(r.val) + 1, err |-> ErrNil]

\* the 0-based rank of ZREVRANK returned as it is
updateMemberRankZeroBased(z, id, f) ==
    LET r == ZRevRank(z, id, f)
    IN  IF r.err # ErrNil THEN [rank |-> 0, err |-> r.err]
        ELSE [rank |-> ToInt(r.val), err |-> ErrNil]

updateMemberRank(z, id, f) ==
    LET r == ZRevRank(z, id, f)
    IN  IF r.err # ErrNil THEN [rank |-> 0, err |-> r.err]
        ELSE [rank |-> ToInt(r.val) + 1, err |-> ErrNil]

\* the score of the reply dropped: the zero value returned
getMemberScoreZero(z, id, f) ==
    LET r == ZScore(z, id, f)
    IN  IF r.err # ErrNil THEN [score |-> 0, err |-> r.err]
        ELSE [score |-> 0, err |-> ErrNil]

getMemberScore(z, id, f) ==
    LET r == ZScore(z, id, f)
    IN  IF r.err # ErrNil THEN [score |-> 0, err |-> r.err]
        ELSE [score |-> ToInt(r.val), err |-> ErrNil]

\* [zset, err]: the set after the call and the error returned
insertMemberScore(z, id, score, f) ==
    IF f THEN [zset |-> z, err |-> ErrBackend]
    ELSE [zset |-> ZAdd(z, id, Float64(score)), err |-> ErrNil]

\* the test that rejects an increment
RejectedIncrement(incrementBy) == incrementBy < 0

\* the increment sent to Redis before the test of its sign
incrementMemberScoreThenTest(z, id, incrementBy, f) ==
    IF f THEN [zset |-> z, newScore |-> 0, err |-> ErrBackend]
    ELSE LET z2 == ZIncrBy(z, id, Float64(incrementBy))
         IN  IF RejectedIncrement(incrementBy)
             THEN [zset |-> z2, newScore |-> 0, err |-> ErrIncrementByMustBePositiveInteger]
             ELSE [zset |-> z2, newScore |-> ToInt(z2[id]), err |-> ErrNil]

\* [zset, newScore, err]
incrementMemberScore(z, id, incrementBy, f) ==
    IF RejectedIncrement(incrementBy)
    THEN [zset |-> z, newScore |-> 0, err |-> ErrIncrementByMustBePositiveInteger]
    ELSE IF f THEN [zset |-> z, newScore |-> 0, err |-> ErrBackend]
    ELSE LET z2 == ZIncrBy(z, id, Float64(incrementBy))
         IN  [zset |-> z2, newScore |-> ToInt(z2[id]), err |-> ErrNil]

\* the integer division total / pageSize
FloorDiv(total, pageSize) == total \div pageSize

\* math.Ceil(float64(total) / float64(pageSize))
CeilDiv(total, pageSize) ==
    IF total % pageSize = 0 THEN total \div pageSize ELSE (total \div pageSize) + 1

\* TotalPages: 0 when the count fails
TotalPages(z, pageSize, f) ==
    LET r == ZCount(z, f)
    IN  IF r.err = ErrNil THEN CeilDiv(r.val, pageSize) ELSE 0

\* GetMemberInfo on the stored hash: [bytes, err]
GetMemberInfo(h, id, f) ==
    LET r == HGet(h, id, f)
    IN  IF r.err # ErrNil THEN [bytes |-> "", err |-> r.err]
        ELSE LET d == Base64Decode(Unquote(r.val))
             IN  IF d.err # ErrNil THEN [bytes |-> "", err |-> d.err]
                 ELSE [bytes |-> d.val, err |-> ErrNil]

----------------------------------------------------------------------------
(* Calls *)

NoOp == [name |-> "none", id |-> 0, n |-> 0, withInfo |-> FALSE, payload |-> ""]
NoLoc == [rank |-> 0, score |-> 0, page |-> 0, totalPages |-> 0, values |-> <<>>, i |-> 0,
          users |-> <<>>, err |-> ErrNil]
NoRet == [user |-> ZeroUser, users |-> <<>>, n |-> 0, bytes |-> "", err |-> ErrNil]

Op(name, id, n, withInfo, payload) ==
    [name |-> name, id |-> id, n |-> n, withInfo |-> withInfo, payload |-> payload]

Ops ==
    {Op("FirstOrInsertMember", id, s, FALSE, "") : id \in UserIDs, s \in Scores}
    \cup {Op("IncrementMemberScore", id, d, FALSE, "") : id \in UserIDs, d \in Deltas}
    \cup {Op("GetMember", id, 0, w, "") : id \in UserIDs, w \in BOOLEAN}
    \cup {Op("GetMemberInfo", id, 0, FALSE, "") : id \in UserIDs}
    \cup {Op("UpsertMemberInfo", id, 0, FALSE, b) : id \in UserIDs, b \in Payloads}
    \cup {Op("TotalMembers", 0, 0, FALSE, "")}
    \cup {Op("TotalPages", 0, 0, FALSE, "")}
    \cup {Op("GetLeaders", 0, page, FALSE, "") : page \in Pages}

\* the outcomes of one Redis command: it may fail only when Redis is faulty
Faults == IF faulty /\ faults < MaxFaults THEN BOOLEAN ELSE {FALSE}
Failing(f) == faults' = IF f THEN faults + 1 ELSE faults

Resting(p) == pc[p] \in {"idle", "done"}

RetUser(u, e) == [NoRet EXCEPT !.user = u, !.err = e]
RetUsers(us, e) == [NoRet EXCEPT !.users = us, !.err = e]
RetInt(n, e) == [NoRet EXCEPT !.n = n, !.err = e]
RetBytes(b, e) == [NoRet EXCEPT !.bytes = b, !.err = e]

History == <<firstArg, lastAdd, incd, incLog>>
Config == <<PageSize, faulty, concurrent, zset0>>

\* a caller begins a call; without concurrency only when no call is running,
\* and the callers take turns
Call(p) ==
    /\ Resting(p)
    /\ calls < MaxCalls
    /\ concurrent \/ (p = (calls % 2) + 1 /\ \A q \in Callers : Resting(q))
    /\ \E o \in Ops :
        /\ op' = [op EXCEPT ![p] = o]
        /\ pc' = [pc EXCEPT ![p] = o.name]
        /\ firstArg' = IF o.name = "FirstOrInsertMember" /\ o.id \notin DOMAIN firstArg
                       THEN [m \in DOMAIN firstArg \cup {o.id} |->
                                IF m = o.id THEN o.n ELSE firstArg[m]]
                       ELSE firstArg
    /\ loc' = [loc EXCEPT ![p] = NoLoc]
    /\ ret' = [ret EXCEPT ![p] = NoRet]
    /\ pre' = [pre EXCEPT ![p] = [zset |-> zset, hash |-> hash, no |-> calls + 1,
                                  faults |-> faults, hcalls |-> hcalls]]
    /\ calls' = calls + 1
    /\ UNCHANGED <<zset, hash, Config, faults, lastAdd, incd, incLog, hcalls>>

\* the call of p returns r
Return(p, r) ==
    /\ pc' = [pc EXCEPT ![p] = "done"]
    /\ ret' = [ret EXCEPT ![p] = r]

----------------------------------------------------------------------------
(* FirstOrInsertMember *)

\* the test with the 0-based rank in mind
MemberExistsZeroBased(currentRank) == currentRank > 1

\* the test that takes the "member already exists" branch
MemberExists(currentRank) == currentRank > 0

\* lines 80-86: the rank lookup
FirstOrInsertMember(p) ==
    /\ pc[p] = "FirstOrInsertMember"
    /\ \E f \in Faults : Failing(f) /\
        LET r == getMemberRank(zset, op[p].id, f)
        IN  IF r.err # ErrNil /\ r.err # RedisNil
            THEN Return(p, RetUser(ZeroUser, r.err)) /\ UNCHANGED loc
            ELSE /\ loc' = [loc EXCEPT ![p].rank = r.rank]
                 /\ pc' = [pc EXCEPT ![p] = IF MemberExists(r.rank)
                                           THEN "FirstOrInsertMember_getMemberScore"
                                           ELSE "FirstOrInsertMember_insertMemberScore"]
                 /\ UNCHANGED ret
    /\ UNCHANGED <<zset, hash, Config, op, pre, calls, History, hcalls>>

\* lines 87-98: the member exists
FirstOrInsertMember_getMemberScore(p) ==
    /\ pc[p] = "FirstOrInsertMember_getMemberScore"
    /\ \E f \in Faults : Failing(f) /\
        LET r == getMemberScore(zset, op[p].id, f)
        IN  IF r.err # ErrNil
            THEN Return(p, RetUser(ZeroUser, r.err))
            ELSE Return(p, RetUser(User(op[p].id, r.score, loc[p].rank, ""), ErrNil))
    /\ UNCHANGED <<zset, hash, Config, op, loc, pre, calls, History, hcalls>>

\* lines 102-104: the insert
FirstOrInsertMember_insertMemberScore(p) ==
    /\ pc[p] = "FirstOrInsertMember_insertMemberScore"
    /\ \E f \in Faults : Failing(f) /\
        LET r == insertMemberScore(zset, op[p].id, op[p].n, f)
        IN  /\ zset' = r.zset
            /\ IF r.err # ErrNil
               THEN Return(p, RetUser(ZeroUser, r.err)) /\ UNCHANGED lastAdd
               ELSE /\ pc' = [pc EXCEPT ![p] = "FirstOrInsertMember_updateMemberRank"]
                    /\ lastAdd' = [m \in DOMAIN lastAdd \cup {op[p].id} |->
                                      IF m = op[p].id THEN p ELSE lastAdd[m]]
                    /\ UNCHANGED ret
    /\ UNCHANGED <<hash, Config, op, loc, pre, calls, firstArg, incd, incLog, hcalls>>

\* lines 106-117: the rank after the insert
FirstOrInsertMember_updateMemberRank(p) ==
    /\ pc[p] = "FirstOrInsertMember_updateMemberRank"
    /\ \E f \in Faults : Failing(f) /\
        LET r == updateMemberRank(zset, op[p].id, f)
        IN  IF r.err # ErrNil
            THEN Return(p, RetUser(ZeroUser, r.err))
            ELSE Return(p, RetUser(User(op[p].id, op[p].n, r.rank, ""), ErrNil))
    /\ UNCHANGED <<zset, hash, Config, op, loc, pre, calls, History, hcalls>>

----------------------------------------------------------------------------
(* IncrementMemberScore *)

\* lines 165-168: the increment
IncrementMemberScore(p) ==
    /\ pc[p] = "IncrementMemberScore"
    /\ \E f \in Faults : Failing(f) /\
        LET r == incrementMemberScore(zset, op[p].id, op[p].n, f)
        IN  /\ zset' = r.zset
            /\ IF r.err # ErrNil
               THEN Return(p, RetUser(ZeroUser, r.err)) /\ UNCHANGED <<loc, incd>>
               ELSE /\ loc' = [loc EXCEPT ![p].score = r.newScore]
                    /\ pc' = [pc EXCEPT ![p] = "IncrementMemberScore_updateMemberRank"]
                    /\ incd' = incd \cup {op[p].id}
                    /\ UNCHANGED ret
    /\ UNCHANGED <<hash, Config, op, pre, calls, firstArg, lastAdd, incLog, hcalls>>

\* lines 170-181: the rank after the increment
IncrementMemberScore_updateMemberRank(p) ==
    /\ pc[p] = "IncrementMemberScore_updateMemberRank"
    /\ \E f \in Faults : Failing(f) /\
        LET r == updateMemberRank(zset, op[p].id, f)
            newScore == loc[p].score
        IN  IF r.err # ErrNil
            THEN Return(p, RetUser(ZeroUser, r.err)) /\ UNCHANGED incLog
            ELSE /\ Return(p, RetUser(User(op[p].id, newScore, r.rank, ""), ErrNil))
                 /\ incLog' = Append(incLog, [caller |-> p, id |-> op[p].id,
                                              delta |-> op[p].n, score |-> newScore])
    /\ UNCHANGED <<zset, hash, Config, op, loc, pre, calls, firstArg, lastAdd, incd, hcalls>>

----------------------------------------------------------------------------
(* GetMember.  err is the named result: the rank lookup assigns it (line   *)
(* 121) and the bare return of line 161 returns it.                        *)

\* the flag ignored: the info is looked up for every call
WantsInfoAlways(withInfo) == TRUE

\* line 142: if withInfo
WantsInfo(withInfo) == withInfo

\* lines 121-133 and, for an unranked member, 154-161
GetMember(p) ==
    /\ pc[p] = "GetMember"
    /\ \E f \in Faults : Failing(f) /\
        LET r == getMemberRank(zset, op[p].id, f)
            rank == IF r.err # ErrNil THEN UnrankedMember ELSE r.rank
        IN  IF r.err # ErrNil /\ r.err # RedisNil
            THEN Return(p, RetUser(ZeroUser, r.err)) /\ UNCHANGED loc
            ELSE IF rank # UnrankedMember
            THEN /\ loc' = [loc EXCEPT ![p].rank = rank, ![p].err = r.err]
                 /\ pc' = [pc EXCEPT ![p] = "GetMember_getMemberScore"]
                 /\ UNCHANGED ret
            ELSE Return(p, RetUser(User(op[p].id, 0, rank, ""), r.err)) /\ UNCHANGED loc
    /\ UNCHANGED <<zset, hash, Config, op, pre, calls, History, hcalls>>

\* lines 134-141 and, without info, 154-161: a failed score lookup returns
\* the outer err, not scoreErr
GetMember_getMemberScore(p) ==
    /\ pc[p] = "GetMember_getMemberScore"
    /\ \E f \in Faults : Failing(f) /\
        LET r == getMemberScore(zset, op[p].id, f)
        IN  IF r.err # ErrNil /\ loc[p].err # RedisNil
            THEN Return(p, RetUser(ZeroUser, loc[p].err)) /\ UNCHANGED loc
            ELSE IF WantsInfo(op[p].withInfo)
            THEN /\ loc' = [loc EXCEPT ![p].score = r.score]
                 /\ pc' = [pc EXCEPT ![p] = "GetMember_GetMemberInfo"]
                 /\ UNCHANGED ret
            ELSE /\ Return(p, RetUser(User(op[p].id, r.score, loc[p].rank, ""), loc[p].err))
                 /\ UNCHANGED loc
    /\ UNCHANGED <<zset, hash, Config, op, pre, calls, History, hcalls>>

\* lines 142-161: the info; a missing entry is tolerated
GetMember_GetMemberInfo(p) ==
    /\ pc[p] = "GetMember_GetMemberInfo"
    /\ \E f \in Faults : Failing(f) /\
        LET r == GetMemberInfo(hash, op[p].id, f)
        IN  IF r.err # ErrNil /\ r.err # RedisNil
            THEN Return(p, RetUser(ZeroUser, r.err))
            ELSE Return(p, RetUser(User(op[p].id, loc[p].score, loc[p].rank, r.bytes),
                                   loc[p].err))
    /\ hcalls' = hcalls + 1
    /\ UNCHANGED <<zset, hash, Config, op, loc, pre, calls, History>>

----------------------------------------------------------------------------
(* GetMemberInfo, UpsertMemberInfo, TotalMembers, TotalPages *)

GetMemberInfoCall(p) ==
    /\ pc[p] = "GetMemberInfo"
    /\ \E f \in Faults : Failing(f) /\
        LET r == GetMemberInfo(hash, op[p].id, f)
        IN  Return(p, RetBytes(r.bytes, r.err))
    /\ hcalls' = hcalls + 1
    /\ UNCHANGED <<zset, hash, Config, op, loc, pre, calls, History>>

UpsertMemberInfo(p) ==
    /\ pc[p] = "UpsertMemberInfo"
    /\ \E f \in Faults : Failing(f) /\
        IF f THEN Return(p, RetInt(0, ErrBackend)) /\ UNCHANGED hash
        ELSE /\ hash' = HSet(hash, op[p].id, JsonMarshal(op[p].payload))
             /\ Return(p, RetInt(0, ErrNil))
    /\ hcalls' = hcalls + 1
    /\ UNCHANGED <<zset, Config, op, loc, pre, calls, History>>

TotalMembers(p) ==
    /\ pc[p] = "TotalMembers"
    /\ \E f \in Faults : Failing(f) /\
        LET r == ZCard(zset, f)
        IN  IF r.err # ErrNil THEN Return(p, RetInt(0, r.err))
            ELSE Return(p, RetInt(ToInt(r.val), ErrNil))
    /\ UNCHANGED <<zset, hash, Config, op, loc, pre, calls, History, hcalls>>

TotalPagesCall(p) ==
    /\ pc[p] = "TotalPages"
    /\ \E f \in Faults : Failing(f) /\ Return(p, RetInt(TotalPages(zset, PageSize, f), ErrNil))
    /\ UNCHANGED <<zset, hash, Config, op, loc, pre, calls, History, hcalls>>

----------------------------------------------------------------------------
(* GetLeaders and getMembersByRange *)

\* the page taken as it is
ClampLowNone(page) == page

\* lines 243-245
ClampLow(page) == IF page < 1 THEN 1 ELSE page

\* the test off by one
PastLastPageOffByOne(page, totalPages) == page > totalPages + 1

\* line 247: the test that replaces the page by the page count
PastLastPage(page, totalPages) == page > totalPages

\* lines 251-256: the range [startOffset, endOffset] of a page
PageRange(page, pageSize) ==
    LET redisIndex == page - 1
        startOffset == IF redisIndex * pageSize < 0 THEN 0 ELSE redisIndex * pageSize
    IN  [startOffset |-> startOffset, endOffset |-> (startOffset + pageSize) - 1]

\* line 320: make([]User, pageSize), pageSize zero Users
MakeUsers(pageSize) == [i \in 1..pageSize |-> ZeroUser]

\* lines 243-247: the first TotalPages call, for the comparison
GetLeaders(p) ==
    /\ pc[p] = "GetLeaders"
    /\ \E f \in Faults : Failing(f) /\
        LET page == ClampLow(op[p].n)
            totalPages == TotalPages(zset, PageSize, f)
        IN  /\ loc' = [loc EXCEPT ![p].page = page, ![p].totalPages = totalPages]
            /\ pc' = [pc EXCEPT ![p] =
                        IF PastLastPage(page, totalPages)
                        THEN "GetLeaders_TotalPages" ELSE "GetLeaders_getMembersByRange"]
    /\ UNCHANGED <<zset, hash, Config, op, ret, pre, calls, History, hcalls>>

\* line 248: the second TotalPages call, for the value
GetLeaders_TotalPages(p) ==
    /\ pc[p] = "GetLeaders_TotalPages"
    /\ \E f \in Faults : Failing(f) /\
        /\ loc' = [loc EXCEPT ![p].page = TotalPages(zset, PageSize, f)]
        /\ pc' = [pc EXCEPT ![p] = "GetLeaders_getMembersByRange"]
    /\ UNCHANGED <<zset, hash, Config, op, ret, pre, calls, History, hcalls>>

\* lines 251-258 and 320-325: the range query
GetLeaders_getMembersByRange(p) ==
    /\ pc[p] = "GetLeaders_getMembersByRange"
    /\ \E f \in Faults : Failing(f) /\
        LET range == PageRange(loc[p].page, PageSize)
            r == ZRevRangeWithScores(zset, range.startOffset, range.endOffset, f)
            users == MakeUsers(PageSize)
        IN  IF r.err # ErrNil
            THEN Return(p, RetUsers(<<>>, r.err)) /\ UNCHANGED loc
            ELSE IF Len(r.val) = 0
            THEN Return(p, RetUsers(users, ErrNil)) /\ UNCHANGED loc
            ELSE /\ loc' = [loc EXCEPT ![p].values = r.val, ![p].i = 1, ![p].users = users]
                 /\ pc' = [pc EXCEPT ![p] = "getMembersByRange_getMemberRank"]
                 /\ UNCHANGED ret
    /\ UNCHANGED <<zset, hash, Config, op, pre, calls, History, hcalls>>

\* lines 328-333: the rank of values[i]
getMembersByRange_getMemberRank(p) ==
    /\ pc[p] = "getMembersByRange_getMemberRank"
    /\ \E f \in Faults : Failing(f) /\
        LET r == getMemberRank(zset, loc[p].values[loc[p].i].Member, f)
        IN  IF r.err # ErrNil
            THEN Return(p, RetUsers(<<>>, r.err)) /\ UNCHANGED loc
            ELSE /\ loc' = [loc EXCEPT ![p].rank = r.rank]
                 /\ pc' = [pc EXCEPT ![p] = "getMembersByRange_getMemberScore"]
                 /\ UNCHANGED ret
    /\ UNCHANGED <<zset, hash, Config, op, pre, calls, History, hcalls>>

\* lines 335-350: the score of values[i], the append, and the next i
getMembersByRange_getMemberScore(p) ==
    /\ pc[p] = "getMembersByRange_getMemberScore"
    /\ \E f \in Faults : Failing(f) /\
        LET userID == loc[p].values[loc[p].i].Member
            r == getMemberScore(zset, userID, f)
            users == Append(loc[p].users, User(userID, r.score, loc[p].rank, ""))
        IN  IF r.err # ErrNil
            THEN Return(p, RetUsers(<<>>, r.err)) /\ UNCHANGED loc
            ELSE IF loc[p].i = Len(loc[p].values)
            THEN Return(p, RetUsers(users, ErrNil)) /\ UNCHANGED loc
            ELSE /\ loc' = [loc EXCEPT ![p].users = users, ![p].i = loc[p].i + 1]
                 /\ pc' = [pc EXCEPT ![p] = "getMembersByRange_getMemberRank"]
                 /\ UNCHANGED ret
    /\ UNCHANGED <<zset, hash, Config, op, pre, calls, History, hcalls>>

----------------------------------------------------------------------------
(* Specifications *)

\* the sorted set found at construction: members 1..k
Populated(k) == [m \in 1..k |-> InitScores[((m - 1) % Len(InitScores)) + 1]]

InitStores(sizes, pageSizes) ==
    /\ zset \in {Populated(k) : k \in sizes}
    /\ hash = <<>>
    /\ PageSize \in {NewLeaderboard(a) : a \in pageSizes}
    /\ pc = [p \in Callers |-> "idle"]
    /\ op = [p \in Callers |-> NoOp]
    /\ loc = [p \in Callers |-> NoLoc]
    /\ ret = [p \in Callers |-> NoRet]
    /\ pre = [p \in Callers |-> [zset |-> zset, hash |-> hash, no |-> 0,
                                 faults |-> 0, hcalls |-> 0]]
    /\ calls = 0
    /\ faults = 0
    /\ zset0 = zset
    /\ incd = {}
    /\ firstArg = <<>>
    /\ lastAdd = <<>>
    /\ incLog = <<>>
    /\ hcalls = 0

\* one call at a time, Redis answers every command
Init == InitStores(InitSizes, PageSizeArgs) /\ faulty = FALSE /\ concurrent = FALSE
\* overlapping calls, Redis answers every command
InitConc == InitStores(ConcInitSizes, ConcPageSizeArgs) /\ faulty = FALSE /\ concurrent = TRUE
\* one call at a time, Redis answers every command, fewer leaderboards
InitRanks == InitStores(RankInitSizes, RankPageSizeArgs) /\ faulty = FALSE /\ concurrent = FALSE
\* one call at a time, any command may fail
InitFaulty == InitStores(InitSizes, PageSizeArgs) /\ faulty = TRUE /\ concurrent = FALSE
\* the same on the leaderboards of the runs with overlapping calls
InitFaultySmall ==
    InitStores(ConcInitSizes, ConcPageSizeArgs) /\ faulty = TRUE /\ concurrent = FALSE

Next ==
    \E p \in Callers :
        \/ Call(p)
        \/ FirstOrInsertMember(p)
        \/ FirstOrInsertMember_getMemberScore(p)
        \/ FirstOrInsertMember_insertMemberScore(p)
        \/ FirstOrInsertMember_updateMemberRank(p)
        \/ IncrementMemberScore(p)
        \/ IncrementMemberScore_updateMemberRank(p)
        \/ GetMember(p)
        \/ GetMember_getMemberScore(p)
        \/ GetMember_GetMemberInfo(p)
        \/ GetMemberInfoCall(p)
        \/ UpsertMemberInfo(p)
        \/ TotalMembers(p)
        \/ TotalPagesCall(p)
        \/ GetLeaders(p)
        \/ GetLeaders_TotalPages(p)
        \/ GetLeaders_getMembersByRange(p)
        \/ getMembersByRange_getMemberRank(p)
        \/ getMembersByRange_getMemberScore(p)

Spec == Init /\ [][Next]_vars
SpecConc == InitConc /\ [][Next]_vars
SpecFaulty == InitFaulty /\ [][Next]_vars
SpecRanks == InitRanks /\ [][Next]_vars
SpecFaultySmall == InitFaultySmall /\ [][Next]_vars

----------------------------------------------------------------------------
(* What the claims speak of, stated without the code's helpers *)

Max(a, b) == IF a > b THEN a ELSE b
Min(a, b) == IF a < b THEN a ELSE b
ScoreOr0(z, m) == IF m \in DOMAIN z THEN z[m] ELSE 0
Size(z) == Cardinality(DOMAIN z)

\* 1-based rank of a present member: one more than the members ahead of it
RankIn(z, m) ==
    1 + Cardinality({n \in DOMAIN z : z[n] > z[m]})
      + Cardinality({n \in DOMAIN z : z[n] = z[m] /\ n > m})

\* the member at a 1-based rank
MemberAt(z, r) == CHOOSE m \in DOMAIN z : RankIn(z, m) = r

\* the least k with k * pageSize >= n
PagesFor(n, pageSize) == CHOOSE k \in 0..n : k * pageSize >= n /\ (k = 0 \/ (k - 1) * pageSize < n)

\* caller p has returned from a call of method name
Returned(p, name) == pc[p] = "done" /\ op[p].name = name

\* ... and no call began after it: the stores are as that call left them
\* unless calls overlap
Latest(p, name) == Returned(p, name) /\ pre[p].no = calls

\* some caller is inside a call of method name about member m
InFlight(name, m) ==
    \E p \in Callers : ~Resting(p) /\ op[p].name = name /\ op[p].id = m

----------------------------------------------------------------------------
(* C1 *)

\* C1: IncrementMemberScore(id, delta) with delta <= 0, 0 included, returns
\* ErrIncrementByMustBePositiveInteger and leaves the sorted set as it was:
\* the score of id unchanged, an absent id still absent.
C1_NonPositiveIncrementRejected ==
    \A p \in Callers :
        Latest(p, "IncrementMemberScore") /\ op[p].n <= 0
        => /\ ret[p].err = ErrIncrementByMustBePositiveInteger
           /\ zset = pre[p].zset

----------------------------------------------------------------------------
(* C2 *)

\* C2: over sequential FirstOrInsertMember calls the stored score of a member
\* is the score argument of the first call made for it (the score found at
\* construction for a member that was already there); a call on a present
\* member changes nothing and returns the stored score and the current rank;
\* a call on an absent member stores the score given and returns it with the
\* rank the member then has.
C2_FirstOrInsertKeepsFirstScore ==
    /\ \A m \in DOMAIN firstArg :
         m \notin incd /\ ~InFlight("FirstOrInsertMember", m)
         => /\ m \in DOMAIN zset
            /\ zset[m] = IF m \in DOMAIN zset0 THEN zset0[m] ELSE firstArg[m]
    /\ \A p \in Callers :
         Latest(p, "FirstOrInsertMember")
         => LET m == op[p].id
                was == pre[p].zset
            IN  /\ ret[p].err = ErrNil
                /\ m \in DOMAIN zset
                /\ ret[p].user = User(m, zset[m], RankIn(zset, m), "")
                /\ m \in DOMAIN was => zset = was
                /\ m \notin DOMAIN was
                   => /\ zset[m] = op[p].n
                      /\ DOMAIN zset = DOMAIN was \cup {m}
                      /\ \A n \in DOMAIN was : zset[n] = was[n]

\* a second call for a member, with another score, has returned the score of
\* the first call
C2_Witness ==
    \E p, q \in Callers :
        /\ p # q
        /\ Returned(p, "FirstOrInsertMember") /\ Latest(q, "FirstOrInsertMember")
        /\ op[p].id = op[q].id /\ op[p].id \notin DOMAIN zset0
        /\ op[p].n # op[q].n
        /\ ret[q].user.score = op[p].n

----------------------------------------------------------------------------
(* C3 *)

\* the calls of p and q are FirstOrInsertMember calls for the same member, both
\* begun while it was absent, both returned, and nothing else wrote its score
RacedFirstInsert(p, q) ==
    /\ p # q
    /\ Returned(p, "FirstOrInsertMember") /\ Returned(q, "FirstOrInsertMember")
    /\ op[p].id = op[q].id
    /\ op[p].id \notin DOMAIN pre[p].zset
    /\ op[p].id \notin DOMAIN pre[q].zset
    /\ op[p].id \notin incd

\* C3: two overlapping FirstOrInsertMember calls for the same absent member
\* leave exactly one entry for it (the set grew by one since the later of
\* the two began), holding the score of the ZADD applied last, and each
\* returns without error one of the two scores.
C3_ConcurrentFirstInsert ==
    \A p, q \in Callers :
        RacedFirstInsert(p, q)
        => LET m == op[p].id
           IN  /\ pre[p].no > pre[q].no
                  => /\ DOMAIN zset = DOMAIN pre[p].zset \cup {m}
                     /\ Size(zset) = Size(pre[p].zset) + 1
               /\ m \in DOMAIN lastAdd /\ lastAdd[m] \in {p, q}
               /\ zset[m] = op[lastAdd[m]].n
               /\ ret[p].err = ErrNil
               /\ ret[p].user.score \in {op[p].n, op[q].n}

\* both calls found the member absent and both applied their ZADD: a caller
\* was returned a score that is not the stored one
C3_Witness ==
    \E p, q \in Callers :
        /\ RacedFirstInsert(p, q)
        /\ ret[p].user.score # zset[op[p].id]
        /\ ret[q].user.score = zset[op[p].id]

----------------------------------------------------------------------------
(* C4 *)

RECURSIVE SumDeltas(_, _)
\* the sum of the increments of the logged calls about m
SumDeltas(log, m) ==
    IF log = <<>> THEN 0
    ELSE (IF Head(log).id = m THEN Head(log).delta ELSE 0) + SumDeltas(Tail(log), m)

\* the logged calls about m
LoggedFor(m) == {i \in 1..Len(incLog) : incLog[i].id = m}

RECURSIVE SumOver(_)
SumOver(I) ==
    IF I = {} THEN 0
    ELSE LET i == CHOOSE j \in I : TRUE IN incLog[i].delta + SumOver(I \ {i})

\* C4: increments of one member are never lost.  When the calls about m have
\* all returned and nothing but increments wrote m, its score is its score at
\* construction (0 if absent) plus all the increments; with positive
\* increments each call returned its own partial sum, no two the same.
C4_ConcurrentIncrementsSum ==
    \A m \in UserIDs :
        ~InFlight("IncrementMemberScore", m) /\ m \notin DOMAIN lastAdd
        => /\ ScoreOr0(zset, m) = ScoreOr0(zset0, m) + SumDeltas(incLog, m)
           /\ (\A i \in LoggedFor(m) : incLog[i].delta > 0)
              => /\ \A i \in LoggedFor(m) :
                      \E I \in SUBSET LoggedFor(m) :
                          i \in I /\ incLog[i].score = ScoreOr0(zset0, m) + SumOver(I)
                 /\ \A i, j \in LoggedFor(m) : i # j => incLog[i].score # incLog[j].score

\* two calls with positive increments for one member overlapped (each began
\* before the other's ZINCRBY) and both have returned
C4_Witness ==
    \E p, q \in Callers :
        /\ p # q
        /\ Returned(p, "IncrementMemberScore") /\ Returned(q, "IncrementMemberScore")
        /\ op[p].id = op[q].id /\ op[p].n > 0 /\ op[q].n > 0
        /\ pre[p].zset = pre[q].zset
        /\ Len(incLog) = 2
        /\ zset[op[p].id] = ScoreOr0(zset0, op[p].id) + op[p].n + op[q].n

----------------------------------------------------------------------------
(* C5 *)

\* C5: GetMember never returns a nil error together with the zero User: a
\* failure of the rank or of the score lookup, other than "not found",
\* reaches the caller as an error.
C5_GetMemberPropagatesFailure ==
    \A p \in Callers :
        Returned(p, "GetMember") => ~(ret[p].err = ErrNil /\ ret[p].user = ZeroUser)

----------------------------------------------------------------------------
(* C6 *)

\* C6: GetMember(id, withInfo) for an id that is not in the sorted set
\* returns, with or without info, a nil error and the User {id, score 0,
\* rank UnrankedMember, no info}, and changes neither store.
C6_GetMemberAbsent ==
    \A p \in Callers :
        Latest(p, "GetMember") /\ op[p].id \notin DOMAIN pre[p].zset
        => /\ ret[p].err = ErrNil
           /\ ret[p].user = User(op[p].id, 0, UnrankedMember, "")
           /\ UnrankedMember \notin 1..Size(zset)
           /\ zset = pre[p].zset
           /\ hash = pre[p].hash

----------------------------------------------------------------------------
(* C7 *)

\* C7: GetLeaders(page) on a leaderboard without members returns a sequence
\* of length 0, whatever the page.
C7_EmptyLeaderboardEmptyPage ==
    \A p \in Callers :
        Latest(p, "GetLeaders") /\ pre[p].zset = <<>>
        => ret[p].err = ErrNil /\ Len(ret[p].users) = 0

----------------------------------------------------------------------------
(* C8 *)

\* the members at 0-based positions (page-1)*pageSize .. min(page*pageSize, N)-1
\* of the descending order, each with its score and rank = position + 1
PageOf(z, page, pageSize) ==
    LET first == (page - 1) * pageSize
        n == Min(page * pageSize, Size(z)) - first
    IN  [i \in 1..n |-> User(MemberAt(z, first + i), z[MemberAt(z, first + i)], first + i, "")]

\* C8: GetLeaders(page) for a valid page returns exactly the members of that
\* page, highest score first, each once with its score and its rank, and
\* nothing else; after 12345 -> 33, 45678 -> 44, 111 -> 12 page 1 is
\* [{45678,44,1}, {12345,33,2}, {111,12,3}].
C8_GetLeadersPage ==
    \A p \in Callers :
        Latest(p, "GetLeaders") /\ op[p].n \in 1..PagesFor(Size(zset), PageSize)
        => /\ ret[p].err = ErrNil
           /\ ret[p].users = PageOf(zset, op[p].n, PageSize)
           /\ (zset = (1 :> 12 @@ 2 :> 33 @@ 3 :> 44) /\ op[p].n = 1)
              => ret[p].users = <<User(3, 44, 1, ""), User(2, 33, 2, ""), User(1, 12, 3, "")>>

----------------------------------------------------------------------------
(* C9 *)

\* p and q have returned from GetLeaders and the sorted set, not empty, was
\* the same throughout both calls
SameBoard(p, q) ==
    /\ p # q
    /\ Returned(p, "GetLeaders") /\ Returned(q, "GetLeaders")
    /\ pre[p].zset = zset /\ pre[q].zset = zset
    /\ zset # <<>>

\* C9: on a leaderboard with members GetLeaders clamps the page into
\* [1, TotalPages()]: a page below 1 gives what page 1 gives, a page above
\* TotalPages() what page TotalPages() gives.
C9_GetLeadersClamps ==
    \A p, q \in Callers :
        SameBoard(p, q)
        => LET last == PagesFor(Size(zset), PageSize)
           IN  /\ op[p].n < 1 /\ op[q].n = 1 => ret[p] = ret[q]
               /\ op[p].n > last /\ op[q].n = last => ret[p] = ret[q]

\* page 3 of a leaderboard of two pages gave what page 2 gives, which is not
\* what page 1 gives
C9_Witness ==
    \E p, q \in Callers :
        /\ SameBoard(p, q)
        /\ PagesFor(Size(zset), PageSize) = 2
        /\ op[p].n = 3 /\ op[q].n = 2
        /\ ret[p].users = ret[q].users
        /\ \E i \in 1..Len(ret[p].users) : ret[p].users[i].rank = PageSize + 1

----------------------------------------------------------------------------
(* C10 *)

\* C10: TotalPages() is ceil(TotalMembers() / PageSize) for the page size set
\* at construction, one of 10, 25, 50, 100: 0 exactly when there is no
\* member, else the least k with k * PageSize >= TotalMembers().
C10_TotalPagesIsCeiling ==
    /\ PageSize \in {10, 25, 50, 100}
    /\ \A p \in Callers :
         Latest(p, "TotalPages")
         => /\ ret[p].n = 0 <=> Size(zset) = 0
            /\ ret[p].n = PagesFor(Size(zset), PageSize)
            /\ \A q \in Callers :
                 Returned(q, "TotalMembers") /\ pre[q].zset = zset
                 => /\ ret[q].err = ErrNil
                    /\ ret[p].n * PageSize >= ret[q].n
                    /\ ret[q].n > 0 => (ret[p].n - 1) * PageSize < ret[q].n

\* TotalMembers returned 11 and then TotalPages 2, with pages of 10
C10_Witness ==
    \E p, q \in Callers :
        /\ Latest(p, "TotalPages") /\ Returned(q, "TotalMembers")
        /\ pre[q].zset = zset
        /\ ret[q].n = 11 /\ PageSize = 10 /\ ret[p].n = 2

----------------------------------------------------------------------------
(* C11 *)

\* a command of the latest call of p got no reply
FailedIn(p) == pre[p].no = calls /\ faults > pre[p].faults

\* C11: a failure of the count query is never passed off as a leaderboard
\* of zero pages: a TotalPages or GetLeaders call during which a command
\* failed returns an error.  (In GetLeaders every command other than the
\* count returns its error, lines 322-325 and 330-343, so the count is the
\* only command that can fail without one.)
C11_CountFailureSurfaced ==
    \A p \in Callers :
        (Returned(p, "TotalPages") \/ Returned(p, "GetLeaders")) /\ FailedIn(p)
        => ret[p].err # ErrNil

----------------------------------------------------------------------------
(* C12 *)

----------------------------------------------------------------------------
(* C13 *)

\* C13: in every reachable state the ranks that getMemberRank and
\* updateMemberRank report (position in descending score order, plus 1)
\* agree with the scores: a member of higher score has the smaller rank, and
\* the ranks of the N members present are the numbers 1..N, none twice.
\* The rank a completed FirstOrInsertMember or IncrementMemberScore
\* returned is that rank.
C13_RanksFollowScores ==
    LET Rank(m) == getMemberRank(zset, m, FALSE).rank
    IN  /\ \A m \in DOMAIN zset :
             /\ getMemberRank(zset, m, FALSE).err = ErrNil
             /\ updateMemberRank(zset, m, FALSE) = getMemberRank(zset, m, FALSE)
        /\ \A m1 \in DOMAIN zset :
             LET r1 == Rank(m1)
             IN  \A m2 \in DOMAIN zset :
                     LET r2 == Rank(m2)
                     IN  /\ zset[m1] > zset[m2] => r1 < r2
                         /\ m1 # m2 => r1 # r2
        /\ {Rank(m) : m \in DOMAIN zset} = 1..Size(zset)
        /\ \A p \in Callers :
             (Latest(p, "FirstOrInsertMember") \/ Latest(p, "IncrementMemberScore"))
                /\ ret[p].err = ErrNil
             => ret[p].user.rank = Rank(op[p].id)

\* a member was inserted with a score other members hold, into a set that
\* then has 12 members
C13_Witness ==
    \E p \in Callers :
        /\ Latest(p, "FirstOrInsertMember")
        /\ op[p].id \notin DOMAIN pre[p].zset
        /\ Size(zset) = 12
        /\ \E m \in DOMAIN zset \ {op[p].id} :
             /\ zset[m] = zset[op[p].id]
             /\ getMemberRank(zset, m, FALSE).rank # ret[p].user.rank

----------------------------------------------------------------------------
(* C14 *)

\* C14: GetMember(id, false) issues no command on the hash, for any id and
\* any state of the stores: from the start of such a call to its return the
\* number of hash commands issued stays what it was, and the User returned
\* carries no info.
C14_GetMemberWithoutInfoSkipsHash ==
    \A p \in Callers :
        op[p].name = "GetMember" /\ ~op[p].withInfo /\ pre[p].no = calls
        => /\ hcalls = pre[p].hcalls
           /\ pc[p] # "GetMember_GetMemberInfo"
           /\ pc[p] = "done" => ret[p].user.info = ""

\* GetMember(id, false) returned a ranked member that has info in the hash
C14_Witness ==
    \E p \in Callers :
        /\ Latest(p, "GetMember") /\ ~op[p].withInfo
        /\ op[p].id \in DOMAIN zset /\ op[p].id \in DOMAIN hash
        /\ ret[p].user.rank > 0 /\ ret[p].user.info = ""
        /\ hcalls = 1

----------------------------------------------------------------------------
(* C15 *)

\* C15: info and scores are independent.  UpsertMemberInfo(id, payload)
\* succeeds whether or not id has a score; it writes the info of id only,
\* so that a following GetMemberInfo(id) returns the payload written last;
\* it leaves the sorted set (every score, rank and the member count) and the
\* info of every other member as they were.  FirstOrInsertMember and
\* IncrementMemberScore leave the hash as it was.
C15_InfoAndScoresIndependent ==
    \A p \in Callers :
        /\ Latest(p, "UpsertMemberInfo")
           => /\ ret[p].err = ErrNil
              /\ zset = pre[p].zset
              /\ DOMAIN hash = DOMAIN pre[p].hash \cup {op[p].id}
              /\ \A m \in DOMAIN pre[p].hash \ {op[p].id} : hash[m] = pre[p].hash[m]
              /\ GetMemberInfo(hash, op[p].id, FALSE) = [bytes |-> op[p].payload, err |-> ErrNil]
        /\ Latest(p, "FirstOrInsertMember") \/ Latest(p, "IncrementMemberScore")
           => hash = pre[p].hash
        /\ \A q \in Callers :
             /\ Returned(p, "UpsertMemberInfo") /\ Latest(q, "GetMemberInfo")
             /\ pre[q].no = pre[p].no + 1 /\ op[q].id = op[p].id
             => ret[q].err = ErrNil /\ ret[q].bytes = op[p].payload

\* info was written for an id without a score, and GetMemberInfo returned it
C15_Witness ==
    \E p, q \in Callers :
        /\ Returned(p, "UpsertMemberInfo") /\ Latest(q, "GetMemberInfo")
        /\ op[q].id = op[p].id /\ op[p].id \notin DOMAIN zset
        /\ Size(zset) = 11
        /\ op[p].payload = "b" /\ ret[q].bytes = "b" /\ ret[q].err = ErrNil

----------------------------------------------------------------------------
(* C16 *)

\* the call of p is FirstOrInsertMember(m, s), that of q is
\* IncrementMemberScore(m, d), both begun while m was absent (so they
\* overlap), both returned, the increment without error
RacedInsertIncrement(p, q) ==
    /\ p # q
    /\ Returned(p, "FirstOrInsertMember") /\ Returned(q, "IncrementMemberScore")
    /\ op[p].id = op[q].id
    /\ op[p].id \notin DOMAIN pre[p].zset
    /\ op[p].id \notin DOMAIN pre[q].zset
    /\ ret[q].err = ErrNil

\* C16 as claimed: FirstOrInsertMember never overwrites the score of a
\* completed IncrementMemberScore: when FirstOrInsertMember(id, s) and
\* IncrementMemberScore(id, d) overlap on an absent id and both have
\* returned, the stored score is d or s + d.
C16_IncrementSurvivesFirstInsert ==
    \A p, q \in Callers :
        RacedInsertIncrement(p, q)
        => zset[op[p].id] \in {op[q].n, op[p].n + op[q].n}

\* C16 amended: when both have returned the stored score is d, s + d or s.
\* It is d when FirstOrInsertMember found the member the increment created
\* and wrote nothing; s + d when its ZADD was applied before the ZINCRBY;
\* and s when the ZINCRBY was applied between its rank lookup and its ZADD:
\* then the ZADD overwrites the score and the increment is lost, although
\* IncrementMemberScore returned d without error.
C16_FirstInsertMayOverwriteIncrement ==
    \A p, q \in Callers :
        RacedInsertIncrement(p, q)
        => LET m == op[p].id
               s == op[p].n
               d == op[q].n
           IN  /\ ret[p].err = ErrNil
               /\ zset[m] \in {d, s + d, s}
               /\ ret[q].user.score \in {d, s + d}
               /\ m \notin DOMAIN lastAdd
                  => zset[m] = d /\ ret[p].user.score = d /\ ret[q].user.score = d
               /\ m \in DOMAIN lastAdd
                  => /\ ret[p].user.score = s
                     /\ zset[m] = IF ret[q].user.score = s + d THEN s + d ELSE s

\* the increment is lost: IncrementMemberScore returned 21, the score
\* stored is the 12 of FirstOrInsertMember
C16_Witness ==
    \E p, q \in Callers :
        /\ RacedInsertIncrement(p, q)
        /\ op[p].n = 12 /\ op[q].n = 21
        /\ ret[q].user.score = 21
        /\ zset[op[p].id] = 12

----------------------------------------------------------------------------
(* C17 *)

\* C17 as claimed: under concurrent insertions the page GetLeaders serves
\* (loc.page after the clamps) is at least 1, at most max(1, requested
\* page), and at most the page count its comparison observed.
C17_PageWithinRequestAndCount ==
    \A p \in Callers :
        Returned(p, "GetLeaders")
        => /\ 1 <= loc[p].page
           /\ loc[p].page <= Max(1, op[p].n)
           /\ loc[p].page <= loc[p].totalPages

\* C17 amended: GetLeaders evaluates TotalPages twice.  With c = max(1,
\* requested page), the page served is c when c is at most the count the
\* comparison saw, and otherwise the count of the second evaluation, which
\* lies between the count the comparison saw and the page count at the
\* return.  So the page served is 0 while the leaderboard is empty, and it
\* can exceed the count the comparison observed; it is bounded by the
\* page counts at the start and at the end of the call, not by the request.
C17_PageFollowsSecondCount ==
    \A p \in Callers :
        Returned(p, "GetLeaders")
        => LET c == Max(1, op[p].n)
               lo == PagesFor(Size(pre[p].zset), PageSize)
               hi == PagesFor(Size(zset), PageSize)
               seen == loc[p].totalPages
               page == loc[p].page
           IN  /\ lo <= seen /\ seen <= hi
               /\ c <= seen => page = c
               /\ c > seen => seen <= page /\ page <= hi
               /\ c <= lo => page = c
               /\ c > hi => lo <= page /\ page <= hi
               /\ Min(c, lo) <= page /\ page <= Max(c, hi)

\* the comparison saw 0 pages, a member was inserted before the second
\* count, and page 1 was served
C17_Witness ==
    \E p \in Callers :
        /\ Returned(p, "GetLeaders")
        /\ loc[p].totalPages = 0
        /\ loc[p].page = 1
        /\ Size(pre[p].zset) = 0
        /\ Len(ret[p].users) = PageSize + 1

----------------------------------------------------------------------------
(* C18 *)

\* the Users of a GetLeaders result that name a member, in sequence order
MembersOf(users) == SelectSeq(users, LAMBDA u : u.id # 0)

\* C18 as claimed: whatever FirstOrInsertMember and IncrementMemberScore
\* calls overlap a GetLeaders call, the members it returns carry pairwise
\* distinct ranks that strictly increase along the sequence, and scores
\* that do not increase.
C18_LeadersRanksIncrease ==
    \A p \in Callers :
        Returned(p, "GetLeaders") /\ ret[p].err = ErrNil
        => LET us == MembersOf(ret[p].users)
           IN  \A i, j \in 1..Len(us) :
                   i < j => us[i].rank < us[j].rank /\ us[i].score >= us[j].score

\* C18 amended: after the PageSize zero Users, a GetLeaders result names
\* the members of its one range query, each once and in that order; the
\* rank and the score of each were read by later queries of their own, so
\* each rank is a rank of the set at the moment it was read (within 1..N
\* at the return).  With mutations applied in between, two members of a
\* result can carry the same rank, ranks need not increase and scores need
\* not decrease along it.  When the set is the same at the return as at the
\* start, ranks strictly increase, scores do not increase, and both are the
\* stored ones.
C18_LeadersReadOneByOne ==
    \A p \in Callers :
        Returned(p, "GetLeaders") /\ ret[p].err = ErrNil
        => LET all == ret[p].users
               us == SubSeq(all, PageSize + 1, Len(all))
               values == loc[p].values
           IN  /\ Len(all) >= PageSize
               /\ \A i \in 1..PageSize : all[i] = ZeroUser
               /\ Len(us) = Len(values)
               /\ \A i \in 1..Len(us) :
                    /\ us[i].id = values[i].Member
                    /\ us[i].id \in DOMAIN zset
                    /\ us[i].rank \in 1..Size(zset)
               /\ \A i, j \in 1..Len(us) : i # j => us[i].id # us[j].id
               /\ zset = pre[p].zset
                  => /\ \A i \in 1..Len(us) :
                          /\ us[i].rank = RankIn(zset, us[i].id)
                          /\ us[i].score = zset[us[i].id]
                     /\ \A i, j \in 1..Len(us) :
                          i < j => /\ us[i].rank < us[j].rank
                                   /\ us[i].score >= us[j].score

\* an increment applied between two rank queries: two members of one result
\* carry the same rank, and the later one the higher score
C18_Witness ==
    \E p \in Callers :
        /\ Returned(p, "GetLeaders") /\ ret[p].err = ErrNil
        /\ LET us == MembersOf(ret[p].users)
           IN  \E i, j \in 1..Len(us) :
                   i < j /\ us[i].rank = us[j].rank /\ us[i].score < us[j].score

----------------------------------------------------------------------------
(* C19 *)

\* the latest call of p is a FirstOrInsertMember or IncrementMemberScore
\* call that returned an error
FailedWrite(p) ==
    /\ Latest(p, "FirstOrInsertMember") \/ Latest(p, "IncrementMemberScore")
    /\ ret[p].err # ErrNil

\* the sorted set z with the score of m set to v
WithScore(z, m, v) == [n \in DOMAIN z \cup {m} |-> IF n = m THEN v ELSE z[n]]

\* C19 as claimed: a FirstOrInsertMember or IncrementMemberScore call that
\* returns an error has left the sorted set as it was before the call.
C19_ErrorLeavesScoresUnchanged ==
    \A p \in Callers : FailedWrite(p) => zset = pre[p].zset

\* C19 amended: an error returned before the write (the rank or score
\* lookup of FirstOrInsertMember, the rejected increment of
\* IncrementMemberScore) leaves the sorted set unchanged.  An error of the
\* rank query that follows the ZADD or ZINCRBY is returned, with the zero
\* User, after the write was applied and nothing undoes it: the set then
\* holds the inserted member, or the incremented score, and a retry of the
\* increment adds the delta a second time.
C19_ErrorMayFollowWrite ==
    \A p \in Callers :
        FailedWrite(p)
        => LET id == op[p].id
               before == pre[p].zset
               written == IF op[p].name = "FirstOrInsertMember"
                          THEN WithScore(before, id, op[p].n)
                          ELSE WithScore(before, id, ScoreOr0(before, id) + op[p].n)
           IN  /\ ret[p].user = ZeroUser
               /\ zset \in {before, written}
               /\ ret[p].err = ErrIncrementByMustBePositiveInteger
                  => zset = before /\ op[p].n < 0
               /\ op[p].name = "FirstOrInsertMember" /\ id \in DOMAIN before
                  => zset = before

\* an increment of 21 was applied, its rank query failed and the call
\* returned an error; the same call made again returned the score raised
\* by 42
C19_Witness ==
    \E p, q \in Callers :
        /\ Returned(p, "IncrementMemberScore") /\ Latest(q, "IncrementMemberScore")
        /\ op[p] = op[q] /\ op[p].n = 21
        /\ op[p].id \in DOMAIN pre[p].zset
        /\ ret[p].err = ErrBackend /\ ret[p].user = ZeroUser
        /\ pre[q].zset[op[p].id] = pre[p].zset[op[p].id] + 21
        /\ ret[q].err = ErrNil
        /\ ret[q].user.score = pre[p].zset[op[p].id] + 42

====
